---------------------------- MODULE Spec2Model ----------------------------
(***************************************************************************)
(* Token-creation orchestrator (createToken) of tokenize-fun-factory.      *)
(*                                                                         *)
(* The repository holds several revisions of createToken.  Each revision   *)
(* is a straight-line async function; it is modelled as a program (a       *)
(* sequence of steps) that shared actions interpret one await at a time.   *)
(* The chain RPC, the wallet and the spl-token helpers are external: each  *)
(* call either returns or rejects, chosen nondeterministically.            *)
(*                                                                         *)
(* JavaScript numbers are IEEE-754 doubles.  The service fee is computed   *)
(* with them (0.05 + 0.1 + ...), so doubles are modelled exactly: a        *)
(* double is m * 2^e with m a natural number of at most 53 bits, held as    *)
(* a sequence of 15-bit limbs, and every operation rounds to nearest,      *)
(* ties to even.                                                           *)
(***************************************************************************)
EXTENDS Integers, Sequences, FiniteSets, TLC

(***************************************************************************)
(* Unbounded naturals: little-endian sequences of limbs below LimbBase,    *)
(* with no high zero limb.  Limb products stay below 2^31.                 *)
(***************************************************************************)
LimbBase == 2^15

LimbBits == CHOOSE k \in 1..30 : 2^k = LimbBase

MaxOf(a, b) ==
  IF a >= b THEN a ELSE b

MinOf(a, b) ==
  IF a <= b THEN a ELSE b

RECURSIVE LimbsOfNat(_)
LimbsOfNat(n) ==
  IF n = 0 THEN <<>> ELSE <<n % LimbBase>> \o LimbsOfNat(n \div LimbBase)

RECURSIVE NatOfLimbs(_)
NatOfLimbs(a) ==
  IF a = <<>> THEN 0 ELSE Head(a) + LimbBase * NatOfLimbs(Tail(a))

RECURSIVE Trim(_)
Trim(a) ==
  IF a = <<>> THEN <<>>
  ELSE IF a[Len(a)] = 0 THEN Trim(SubSeq(a, 1, Len(a) - 1))
  ELSE a

LimbAt(a, i) ==
  IF i >= 1 /\ i <= Len(a) THEN a[i] ELSE 0

RECURSIVE AddFrom(_, _, _, _)
AddFrom(a, b, i, c) ==
  IF i > MaxOf(Len(a), Len(b))
  THEN (IF c > 0 THEN <<c>> ELSE <<>>)
  ELSE <<(LimbAt(a, i) + LimbAt(b, i) + c) % LimbBase>>
       \o AddFrom(a, b, i + 1, (LimbAt(a, i) + LimbAt(b, i) + c) \div LimbBase)

LAdd(a, b) ==
  AddFrom(a, b, 1, 0)

\* a - b for a >= b, with the borrow c
RECURSIVE SubFrom(_, _, _, _)
SubFrom(a, b, i, c) ==
  IF i > Len(a) THEN <<>>
  ELSE <<(LimbAt(a, i) - LimbAt(b, i) - c + LimbBase) % LimbBase>>
       \o SubFrom(a, b, i + 1, IF LimbAt(a, i) - LimbAt(b, i) - c < 0 THEN 1 ELSE 0)

LSub(a, b) ==
  Trim(SubFrom(a, b, 1, 0))

\* a times one limb s
RECURSIVE MulLimbFrom(_, _, _, _)
MulLimbFrom(a, s, i, c) ==
  IF i > Len(a) THEN (IF c > 0 THEN <<c>> ELSE <<>>)
  ELSE <<(a[i] * s + c) % LimbBase>>
       \o MulLimbFrom(a, s, i + 1, (a[i] * s + c) \div LimbBase)

RECURSIVE LMul(_, _)
LMul(a, b) ==
  IF b = <<>> \/ a = <<>> THEN <<>>
  ELSE LAdd(Trim(MulLimbFrom(a, Head(b), 1, 0)),
            IF Len(b) = 1 THEN <<>> ELSE <<0>> \o LMul(a, Tail(b)))

LLess(a, b) ==
  IF Len(a) # Len(b) THEN Len(a) < Len(b)
  ELSE \E i \in 1..Len(a) :
         /\ a[i] < b[i]
         /\ \A j \in (i + 1)..Len(a) : a[j] = b[j]

\* long division by a divisor d below LimbBase, from the high limb a[i] down, with
\* the remainder r and the quotient limbs q so far
RECURSIVE DivFrom(_, _, _, _, _)
DivFrom(a, i, d, r, q) ==
  IF i = 0 THEN [q |-> Trim(q), r |-> r]
  ELSE DivFrom(a, i - 1, d, (r * LimbBase + a[i]) % d,
               <<(r * LimbBase + a[i]) \div d>> \o q)

LDivSmall(a, d) ==
  DivFrom(a, Len(a), d, 0, <<>>)

\* number of bits of a
LBitLen(a) ==
  IF a = <<>> THEN 0
  ELSE (Len(a) - 1) * LimbBits
       + (CHOOSE k \in 1..LimbBits : 2^(k - 1) <= a[Len(a)] /\ a[Len(a)] < 2^k)

\* bit k of a, the lowest being bit 0
LBit(a, k) ==
  (LimbAt(a, (k \div LimbBits) + 1) \div 2^(k % LimbBits)) % 2

\* a * 2^d
LShl(a, d) ==
  IF a = <<>> \/ d <= 0 THEN a
  ELSE LET q == d \div LimbBits
           r == d % LimbBits
       IN  Trim([i \in 1..(Len(a) + q + 1) |->
                  IF i <= q THEN 0
                  ELSE (LimbAt(a, i - q) % 2^(LimbBits - r)) * 2^r
                       + (LimbAt(a, i - q - 1) \div 2^(LimbBits - r))])

\* floor(a / 2^d)
LShr(a, d) ==
  IF d <= 0 THEN a
  ELSE LET q == d \div LimbBits
           r == d % LimbBits
       IN  IF q >= Len(a) THEN <<>>
           ELSE Trim([i \in 1..(Len(a) - q) |->
                       (a[i + q] \div 2^r) + (LimbAt(a, i + q + 1) % 2^r) * 2^(LimbBits - r)])

\* some bit of a below bit d is set
LLowBits(a, d) ==
  \E k \in 0..(d - 1) : LBit(a, k) = 1

(***************************************************************************)
(* IEEE-754 binary64, positive finite values: [m, e] is m * 2^e.           *)
(***************************************************************************)
\* 52 stored bits and the implicit leading one
MantissaBits == 52 + 1

\* canonical form: odd mantissa (zero is [<<>>, 0]), so equal values are equal records
DNorm(m, e) ==
  IF m = <<>> THEN [m |-> <<>>, e |-> 0]
  ELSE LET z == CHOOSE k \in 0..(LBitLen(m) - 1) : LBit(m, k) = 1 /\ ~LLowBits(m, k)
       IN  [m |-> LShr(m, z), e |-> e + z]

\* round m * 2^e (plus a nonzero tail below it when sticky) to 53 bits, ties to even
DRound(m, e, sticky) ==
  IF LBitLen(m) <= MantissaBits THEN DNorm(m, e)
  ELSE LET d    == LBitLen(m) - MantissaBits
           keep == LShr(m, d)
           rest == sticky \/ LLowBits(m, d - 1)
           up   == LBit(m, d - 1) = 1 /\ (rest \/ LBit(keep, 0) = 1)
       IN  DNorm(IF up THEN LAdd(keep, <<1>>) ELSE keep, e + d)

DFromNat(n) ==
  DNorm(LimbsOfNat(n), 0)

\* the double nearest to n / d: a decimal literal, or Number() of a decimal string
DFromRatio(n, d) ==
  LET qr == LDivSmall(LShl(LimbsOfNat(n), 64), d)
  IN  DRound(qr.q, -64, qr.r # 0)

DAdd(x, y) ==
  LET e == MinOf(x.e, y.e)
  IN  DRound(LAdd(LShl(x.m, x.e - e), LShl(y.m, y.e - e)), e, FALSE)

\* x - y for x >= y
DSub(x, y) ==
  LET e == MinOf(x.e, y.e)
  IN  DRound(LSub(LShl(x.m, x.e - e), LShl(y.m, y.e - e)), e, FALSE)

DMul(x, y) ==
  DRound(LMul(x.m, y.m), x.e + y.e, FALSE)

DLess(x, y) ==
  LET e == MinOf(x.e, y.e)
  IN  LLess(LShl(x.m, x.e - e), LShl(y.m, y.e - e))

DIsInteger(x) ==
  x.e >= 0

\* Math.floor, as a natural number
DFloor(x) ==
  IF x.e >= 0 THEN NatOfLimbs(LShl(x.m, x.e)) ELSE NatOfLimbs(LShr(x.m, -x.e))

\* Number.prototype.toFixed prints n / scale for the integer n nearest to x * scale,
\* the larger one on a tie
ToFixedDigits(x, scale) ==
  LET p == LMul(x.m, LimbsOfNat(scale))
  IN  IF x.e >= 0 THEN NatOfLimbs(LShl(p, x.e))
      ELSE NatOfLimbs(LShr(LAdd(p, LShl(<<1>>, -x.e - 1)), -x.e))

(***************************************************************************)
(* Constants of createToken.                                               *)
(***************************************************************************)
LAMPORTS_PER_SOL == 1000000000

TX_FEE == 5000

NUM_TRANSACTIONS == 4

METADATA_REQUIRED_LAMPORTS == 3410880

MIN_MINT_RENT_LAMPORTS == 2461600

\* "5000 * 2" of the batched revision, "10000" of the combined-transaction revision
NumTransactionsBatched == 2

EstimatedTxFeeCombined == 10000

\* "5000 * 3" of the revision that pays the fee, funds the mint and creates the metadata
NumTransactionsSplit == 3

\* "let retries = 3" of the associated-token-account loop
RetryCount == 3

(***************************************************************************)
(* The revisions of createToken in the repository.                         *)
(*   ctA   src/src/api/create-token.ts, lines 145-403                      *)
(*   ctB   src/src/api/create-token.ts, lines 510-677                      *)
(*   p006  src/unnamed/part_006        p009  src/unnamed/part_009          *)
(*   p012  src/unnamed/part_012        p014  src/unnamed/part_014          *)
(*   p007  src/unnamed/part_007        p008  src/unnamed/part_008:112-341  *)
(***************************************************************************)
Revisions == {"ctA", "ctB", "p006", "p007", "p008", "p009", "p012", "p014"}

\* the cost components an insufficient-balance message can itemise
CostComponents == {"serviceFee", "mintRent", "tokenAccountRent", "metadataRent", "txFees"}

(***************************************************************************)
(* Inputs: the request, the environment and what the chain answers.        *)
(***************************************************************************)
\* a JavaScript number that is an integer, and NaN
Num(v) == [nan |-> FALSE, v |-> v]

NaN == [nan |-> TRUE, v |-> 0]

Digits == {"0", "1", "2", "3", "4", "5", "6", "7", "8", "9"}

DigitValue(c) ==
  CASE c = "0" -> 0 [] c = "1" -> 1 [] c = "2" -> 2 [] c = "3" -> 3 [] c = "4" -> 4
    [] c = "5" -> 5 [] c = "6" -> 6 [] c = "7" -> 7 [] c = "8" -> 8 [] c = "9" -> 9

\* value of the longest prefix of digits of text after the digits read so far
RECURSIVE ParseDigits(_, _)
ParseDigits(text, acc) ==
  IF text = << >> \/ Head(text) \notin Digits THEN acc
  ELSE ParseDigits(Tail(text), 10 * acc + DigitValue(Head(text)))

\* parseInt(text) of a text without sign or blanks: NaN unless it starts with a digit
ParseInt(text) ==
  IF text = << >> \/ Head(text) \notin Digits THEN NaN ELSE Num(ParseDigits(text, 0))

\* the digits of text up to the first character that is not one, as an exact integer
RECURSIVE ParseDigitsExact(_, _)
ParseDigitsExact(text, acc) ==
  IF text = << >> \/ Head(text) \notin Digits THEN acc
  ELSE ParseDigitsExact(Tail(text),
                        LAdd(Trim(MulLimbFrom(acc, 10, 1, 0)),
                             LimbsOfNat(DigitValue(Head(text)))))

\* parseInt(text) as the Number it is: the double nearest to the integer read
ParseIntNumber(text) ==
  IF text = << >> \/ Head(text) \notin Digits THEN [nan |-> TRUE, d |-> DFromNat(0)]
  ELSE [nan |-> FALSE, d |-> DRound(ParseDigitsExact(text, << >>), 0, FALSE)]

\* data.supply.replace(/,/g, '')
ReplaceCommas(text) ==
  SelectSeq(text, LAMBDA c : c # ",")

\* const supplyNumber = parseInt(data.supply.replace(/,/g, ''))
SupplyNumber(supply) ==
  ParseIntNumber(ReplaceCommas(supply))

\* the Total Supply field is free text: "1000", "1,000,000", "9,007,199,254,740,993"
\* (2^53 + 1) and a lone comma
DefaultSupply == <<"1", "0", "0", "0">>

TypedSupplies ==
  { DefaultSupply,
    <<"1", ",", "0", "0", "0", ",", "0", "0", "0">>,
    <<"9", ",", "0", "0", "7", ",", "1", "9", "9", ",", "2", "5", "4", ",", "7", "4", "0",
      ",", "9", "9", "3">>,
    <<",">> }

\* decimals: 9 of the initial tokenData
DefaultDecimals == 9

\* what the user leaves in the Decimals field of part_003 (the attributes min and max
\* do not stop typing), and where the user leaves the slider of TokenCreationStep2.tsx
TypedDecimals == { << >>, <<"1", "2">> }

SliderDecimals == {0, DefaultDecimals}

\* updateTokenData({ decimals: parseInt(e.target.value) }) and
\* updateTokenData({ decimals: value[0] })
FormDecimals ==
  { ParseInt(t) : t \in TypedDecimals } \cup { Num(v) : v \in SliderDecimals }

\* data.authorities is optional; creatorName stands for "data.creatorName is non-empty"
Requests ==
  { [hasAuthorities |-> h, freezeAuthority |-> f, mintAuthority |-> m,
     updateAuthority |-> u, creatorName |-> c, decimals |-> n, supply |-> s] :
      h \in BOOLEAN, f \in BOOLEAN, m \in BOOLEAN, u \in BOOLEAN, c \in BOOLEAN,
      n \in FormDecimals, s \in TypedSupplies }

\* the request of a user who changes nothing in the form
BaseRequest ==
  [hasAuthorities |-> FALSE, freezeAuthority |-> FALSE, mintAuthority |-> FALSE,
   updateAuthority |-> FALSE, creatorName |-> FALSE, decimals |-> Num(DefaultDecimals),
   supply |-> DefaultSupply]

\* without an authorities object there are no flags to read; the fee options, the
\* decimals and the supply are varied one at a time, the others at their defaults
ValidRequests ==
  { d \in Requests :
      /\ ~d.hasAuthorities => ~d.freezeAuthority /\ ~d.mintAuthority /\ ~d.updateAuthority
      /\ d.decimals # Num(DefaultDecimals) => d = [BaseRequest EXCEPT !.decimals = d.decimals]
      /\ d.supply # DefaultSupply => d = [BaseRequest EXCEPT !.supply = d.supply] }

\* createToken calls of one page session
MaxCalls == 2

\* VITE_QUICKNODE_ENDPOINT of the build: not set, or the address of the node
Undefined == "undefined"

QuickNode == "quicknode"

ConfiguredEndpoints == {Undefined, QuickNode}

\* clusterApiUrl("mainnet-beta")
ClusterApiUrl == "https://api.mainnet-beta.solana.com"

\* const endpoint = quickNodeEndpoint || clusterApiUrl("mainnet-beta"), the endpoint of
\* the ConnectionProvider
ProviderEndpoint(e) ==
  IF e.endpoint # Undefined THEN e.endpoint ELSE ClusterApiUrl

\* the endpoint createToken connects to: getFormattedEndpoint(QUICKNODE_ENDPOINT), which
\* throws on a missing endpoint; part_007 uses the || fallback
EndpointConfigured(r, e) ==
  r = "p007" \/ e.endpoint # Undefined

CallEndpoint(r, e) ==
  IF r = "p007" THEN ProviderEndpoint(e) ELSE e.endpoint

\* feeCollector: VITE_FEE_COLLECTOR_WALLET is set.  bigintLamports: the web3.js of the
\* build encodes lamports with BigInt(), which throws on a non-integer number; older
\* builds write the integer part
Environments ==
  [feeCollector : BOOLEAN, bigintLamports : BOOLEAN, endpoint : ConfiguredEndpoints]

\* getMinimumBalanceForRentExemption(82 / 165 / 679), in lamports
MintRents == {1461600, 3000000}

TokenRents == {2039280}

MetadataRents == {5616720}

\* getBalance of the requester's wallet, in lamports
Balances == {1000000, 200000000, 1000000000}

ChainErrors == {"InsufficientFunds", "InstructionError"}

(***************************************************************************)
(* Fee Calculator.                                                         *)
(***************************************************************************)
AddTenth(cond, fee) ==
  IF cond THEN DAdd(fee, DFromRatio(1, 10)) ELSE fee

\* let serviceFee = 0.05; if (data.authorities) { ... += 0.1 ... }
\* if (data.creatorName) serviceFee += 0.1
AuthorityFee(d) ==
  AddTenth(d.creatorName,
    AddTenth(d.hasAuthorities /\ d.updateAuthority,
      AddTenth(d.hasAuthorities /\ d.mintAuthority,
        AddTenth(d.hasAuthorities /\ d.freezeAuthority, DFromRatio(5, 100)))))

\* calculateFees of the wizard's last step: let totalFee = 0.05, plus 0.1 per selected
\* authority and for a creator name, returned as it is; shown as "Total Fee" and on the
\* Create button
CalculateFees(tokenData) ==
  LET base     == DFromRatio(5, 100)
      freeze   == AddTenth(tokenData.hasAuthorities /\ tokenData.freezeAuthority, base)
      mint     == AddTenth(tokenData.hasAuthorities /\ tokenData.mintAuthority, freeze)
      update   == AddTenth(tokenData.hasAuthorities /\ tokenData.updateAuthority, mint)
  IN  AddTenth(tokenData.creatorName, update)

\* baseFee = Number(baseFee.toFixed(2))
RoundedFee(fee) ==
  DFromRatio(ToFixedDigits(fee, 100), 100)

\* the fee in SOL that the revision charges and reports as feeAmount
ServiceFee(r, d) ==
  IF r = "p014" THEN RoundedFee(AuthorityFee(d)) ELSE AuthorityFee(d)

\* serviceFee * 1e9, and Math.floor(baseFee * LAMPORTS_PER_SOL) in p014
ServiceFeeInLamports(r, fee) ==
  IF r = "p014" THEN DFromNat(DFloor(DMul(fee, DFromNat(LAMPORTS_PER_SOL))))
  ELSE DMul(fee, DFromNat(LAMPORTS_PER_SOL))

\* const mintRent = Math.max(calculatedMintRent, MIN_MINT_RENT_LAMPORTS)
MintRent(r, calculatedMintRent) ==
  IF r \in {"ctA", "p014"} THEN MaxOf(calculatedMintRent, MIN_MINT_RENT_LAMPORTS)
  ELSE calculatedMintRent

\* the metadata rent of the cost estimate: hardcoded in ctA and p014, queried in ctB
\* and p008
MetadataRent(r, queried) ==
  CASE r \in {"ctA", "p014"} -> METADATA_REQUIRED_LAMPORTS
    [] r \in {"ctB", "p008"} -> queried
    [] OTHER                 -> 0

EstimatedTxFees(r) ==
  CASE r \in {"ctA", "p014"} -> TX_FEE * NUM_TRANSACTIONS
    [] r = "ctB"             -> TX_FEE * NumTransactionsBatched
    [] r = "p008"            -> TX_FEE * NumTransactionsSplit
    [] r = "p006"            -> EstimatedTxFeeCombined
    [] OTHER                 -> 0

\* const totalRequired = serviceFeeInLamports + mintRent + tokenAccountRent + ...,
\* added left to right as doubles
TotalRequired(r, feeLamports, mintRent, tokenAccountRent, metadataRent) ==
  CASE r \in {"ctA", "ctB", "p014"} ->
         DAdd(DAdd(DAdd(DAdd(feeLamports, DFromNat(mintRent)), DFromNat(tokenAccountRent)),
                   DFromNat(metadataRent)), DFromNat(EstimatedTxFees(r)))
    [] r = "p008" ->
         DAdd(DAdd(DAdd(DAdd(feeLamports, DFromNat(mintRent)), DFromNat(tokenAccountRent)),
                   DFromNat(EstimatedTxFees(r))), DFromNat(metadataRent))
    [] r = "p009" ->
         DAdd(DAdd(feeLamports, DFromNat(mintRent)), DFromNat(tokenAccountRent))
    [] r = "p006" ->
         DAdd(DAdd(feeLamports, DFromNat(mintRent)), DFromNat(EstimatedTxFees(r)))
    [] OTHER -> DFromNat(0)

(***************************************************************************)
(* The steps of createToken.  One step is one await (an RPC query, a       *)
(* wallet signature, a broadcast, a confirmation, an spl-token helper) or  *)
(* the synchronous code between two awaits.                                *)
(***************************************************************************)
Rpc(call) == [op |-> "rpc", call |-> call, wrap |-> FALSE]

\* try { await connection.getVersion() } catch { throw new Error('Failed to connect ...') }
RpcWrapped(call) == [op |-> "rpc", call |-> call, wrap |-> TRUE]

Build(name) == [op |-> "build", tx |-> name]

Confirm(check) == [op |-> "confirm", check |-> check]

Lib(call) == [op |-> "lib", call |-> call, retry |-> FALSE]

LibRetry(call) == [op |-> "lib", call |-> call, retry |-> TRUE]

Do(op) == [op |-> op]

\* src/src/api/create-token.ts:159-398 and src/unnamed/part_014:191-432
ProgramSequential ==
  << Do("connect"),
     RpcWrapped("getVersion"), Rpc("rentMint"), Rpc("rentToken"), Do("fee"), Do("total"),
     Rpc("getBalance"), Do("guard"),
     Rpc("getLatestBlockhash"), Build("fee"), Do("sign"), Do("send"), Confirm(TRUE),
     Do("keygen"),
     Rpc("getLatestBlockhash"), Build("fundMetadata"), Do("sign"), Do("send"), Confirm(TRUE),
     Rpc("getLatestBlockhash"), Build("fundMint"), Do("sign"), Do("send"), Confirm(TRUE),
     Lib("createMint"),
     Build("createMetadata"), Rpc("getLatestBlockhash"), Do("sign"), Do("send"),
     Confirm(FALSE),
     Lib("getOrCreateAssociatedTokenAccount"), Lib("mintTo"), Do("return") >>

\* src/src/api/create-token.ts:524-673
ProgramBatched ==
  << Do("connect"),
     Rpc("getLatestBlockhash"), Rpc("rentMetadata"), Rpc("rentMint"), Rpc("rentToken"),
     Do("fee"), Do("total"), Rpc("getBalance"), Do("guard"), Do("keygen"),
     Build("setup"), Do("sign"), Do("send"), Confirm(FALSE),
     Lib("createMint"),
     Build("final"), Do("sign"), Do("send"), Confirm(FALSE),
     Lib("getOrCreateAssociatedTokenAccount"), Lib("mintTo"), Do("return") >>

\* src/unnamed/part_006:41-181
ProgramCombined ==
  << Do("connect"),
     RpcWrapped("getVersion"), Do("fee"), Rpc("rentMint"), Do("total"),
     Rpc("getBalance"), Do("guard"), Do("keygen"),
     Rpc("getLatestBlockhash"), Build("combined"), Do("sign"), Do("send"), Confirm(FALSE),
     Lib("createMint"), Lib("getOrCreateAssociatedTokenAccount"), Lib("mintTo"),
     Do("return") >>

\* src/unnamed/part_009:40-159
ProgramRetrying ==
  << Do("connect"),
     Do("fee"), Rpc("rentMint"), Rpc("rentToken"), Do("total"),
     Rpc("getBalance"), Do("guard"), Do("keygen"),
     Build("funding"), Rpc("getLatestBlockhash"), Do("sign"), Do("send"),
     Rpc("confirmBlockhash"), Confirm(FALSE),
     Lib("createMint"),
     Do("retries"), LibRetry("getOrCreateAssociatedTokenAccount"),
     Lib("mintTo"), Rpc("confirmBlockhash"), Do("reconfirm"), Do("return") >>

\* src/unnamed/part_012:139-233
ProgramCreateAccount ==
  << Do("connect"),
     Do("keygen"), Rpc("rentMint"),
     Build("createAccount"), Rpc("getLatestBlockhash"), Do("sign"), Do("send"),
     Confirm(FALSE),
     Lib("createMint"),
     Build("metadata"), Rpc("getLatestBlockhash"), Do("sign"), Do("send"), Confirm(FALSE),
     Lib("getOrCreateAssociatedTokenAccount"), Lib("mintTo"), Do("return") >>

\* src/unnamed/part_008:126-336: one blockhash for the three transactions
ProgramSplit ==
  << Do("connect"),
     RpcWrapped("getVersion"), Rpc("rentMint"), Rpc("rentToken"), Rpc("rentMetadata"),
     Do("fee"), Do("total"), Rpc("getBalance"), Do("guard"),
     Build("fee"), Rpc("getLatestBlockhash"), Do("sign"), Do("send"), Confirm(FALSE),
     Do("keygen"),
     Build("fundMint"), Do("sign"), Do("send"), Confirm(FALSE),
     Lib("createMint"),
     Build("createMetadata"), Do("sign"), Do("send"), Confirm(FALSE),
     Lib("getOrCreateAssociatedTokenAccount"), Lib("mintTo"), Do("return") >>

\* src/unnamed/part_007:21-115: the fee is paid first, the payer is a fixed keypair
ProgramFixedKeypair ==
  << Do("connect"),
     Do("fee"),
     Build("fee"), Rpc("getLatestBlockhash"), Do("sign"), Do("send"), Confirm(FALSE),
     Do("keygen"),
     Lib("createMint"), Lib("getOrCreateAssociatedTokenAccount"), Lib("mintTo"),
     Do("return") >>

\* the sequential revision with the balance read and guarded after the fee is paid
ProgramBalanceAfterFee(r) ==
  IF r \in {"ctA", "p014"}
  THEN SubSeq(ProgramSequential, 1, 6) \o SubSeq(ProgramSequential, 9, 13)
       \o SubSeq(ProgramSequential, 7, 8)
       \o SubSeq(ProgramSequential, 14, Len(ProgramSequential))
  ELSE IF r = "ctB" THEN ProgramBatched
  ELSE IF r = "p006" THEN ProgramCombined
  ELSE IF r = "p009" THEN ProgramRetrying
  ELSE IF r = "p008" THEN ProgramSplit
  ELSE IF r = "p007" THEN ProgramFixedKeypair
  ELSE ProgramCreateAccount

Program(r) ==
  CASE r \in {"ctA", "p014"} -> ProgramSequential
    [] r = "ctB"             -> ProgramBatched
    [] r = "p006"            -> ProgramCombined
    [] r = "p009"            -> ProgramRetrying
    [] r = "p012"            -> ProgramCreateAccount
    [] r = "p008"            -> ProgramSplit
    [] r = "p007"            -> ProgramFixedKeypair

(***************************************************************************)
(* Transaction Builder: the SystemProgram.transfer instructions of each    *)
(* transaction, with the lamports as the doubles the code passes.          *)
(***************************************************************************)
Transfer(to, lamports) == [to |-> to, lamports |-> lamports]

TxTransfers(r, name, l, e) ==
  CASE name = "fee" ->
         << Transfer("feeCollector", l.serviceFeeInLamports) >>
    [] name = "fundMetadata" ->
         << Transfer("metadataAddress", DFromNat(METADATA_REQUIRED_LAMPORTS)) >>
    [] name = "fundMint" ->
         << Transfer("mintKeypair", DFromNat(l.mintRent)) >>
    [] name = "setup" ->
         << Transfer("feeCollector", l.serviceFeeInLamports),
            Transfer("metadataAddress", DFromNat(l.metadataRent)),
            Transfer("mintKeypair", DFromNat(l.mintRent)) >>
    [] name = "combined" ->
         << Transfer("feeCollector",
                     DSub(DSub(l.serviceFeeInLamports, DFromNat(l.mintRent)),
                          DFromNat(EstimatedTxFeeCombined))),
            Transfer("mintKeypair", DFromNat(l.mintRent)) >>
    [] name = "funding" ->
         (IF e.feeCollector
          THEN << Transfer("feeCollector", l.serviceFeeInLamports) >> ELSE << >>)
         \o << Transfer("mintKeypair", DFromNat(l.mintRent + l.tokenAccountRent)) >>
    [] name = "createAccount" ->
         << Transfer("mintKeypair", DFromNat(l.mintRent)) >>
    [] OTHER -> << >>

\* the transaction evaluates new PublicKey(FEE_COLLECTOR_WALLET) unconditionally
NeedsCollectorKey(name) ==
  name \in {"fee", "setup", "combined"}

\* FEE_COLLECTOR_WALLET is a string literal in part_007 and an environment variable
\* elsewhere
CollectorConfigured(r, e) ==
  r = "p007" \/ e.feeCollector

\* signatures the transaction carries: transaction.sign(mintKeypair) plus the wallet
TxSignatures(name) ==
  IF name = "createAccount" THEN 2 ELSE 1

RECURSIVE SumLamports(_)
SumLamports(transfers) ==
  IF transfers = << >> THEN 0
  ELSE Head(transfers).lamports + SumLamports(Tail(transfers))

RECURSIVE SumTo(_, _)
SumTo(transfers, to) ==
  IF transfers = << >> THEN 0
  ELSE (IF Head(transfers).to = to THEN Head(transfers).lamports ELSE 0)
       + SumTo(Tail(transfers), to)

\* the insufficient-balance message of the revision: which components it itemises
MessageComponents(r) ==
  IF r \in {"ctA", "p008", "p014"} THEN CostComponents ELSE {}

(***************************************************************************)
(* State of one createToken call and of the accounts it touches.           *)
(***************************************************************************)
VARIABLES
  rev,      \* the revision of createToken that runs
  data,     \* the request
  env,      \* configuration and build
  rents,    \* what the chain answers to the rent-exemption queries
  pc,       \* index of the next step of Program(rev)
  ctl,      \* "try": inside the try block; "wait": in the pause of the retry loop;
            \* "catch": an error is being handled; "done"
  loc,      \* the local constants of createToken
  chain,    \* lamports of the wallet, the fee collector, mintKeypair and the metadata PDA
  debited,  \* lamports the wallet has paid so far (transfers and transaction fees)
  curTx,    \* the transaction being built, signed, sent or confirmed
  log,      \* the chain-mutating steps begun so far, in order, with how each ended
  exc,      \* the error thrown inside the try block
  retries,  \* "let retries" of the token-account loop
  outcome,  \* "running", "returned" or "thrown"
  result,   \* the object createToken returned
  calls,    \* the createToken calls the page has started so far
  keys,     \* the keypairs Keypair.generate() has returned so far
  payers    \* the payer public key of each call that reached its keypair, in order

\* what outlives one createToken call
session == << calls, keys, payers >>

(***************************************************************************)
(* State of the wizard page and of its last step, TokenCreationStep3.      *)
(***************************************************************************)
VARIABLES
  component,    \* which TokenCreationStep3 the page mounts
  useWallet,    \* what the useWallet() hook gives: whether publicKey and
                \* signTransaction are there
  currentStep,  \* const [currentStep, setCurrentStep] = useState(1)
  isCreating,   \* const [isCreating, setIsCreating] = useState(false), of the mounted step
  view,         \* what React committed last: the step shown and the button's disabled
  instance,     \* the TokenCreationStep3 instance that is mounted, 0 when none is
  mounts,       \* the TokenCreationStep3 instances mounted so far
  clicks,       \* the clicks the Create button has received
  requests,     \* the requests handleCreateToken has started, with how each stands
  toasts        \* the titles of the toasts shown, in order

wizard ==
  << component, useWallet, currentStep, isCreating, view, instance, mounts, clicks,
     requests, toasts >>

createTokenState ==
  << rev, data, env, rents, pc, ctl, loc, chain, debited, curTx, log, exc, retries,
     outcome, result, calls, keys, payers >>

vars == << createTokenState, wizard >>

(***************************************************************************)
(* Addresses.  Keypair.generate() draws 32 random bytes: the n-th keypair   *)
(* it returns is Generated(n), different from every other one.             *)
(***************************************************************************)
NoAddress == [kind |-> "none", n |-> 0]

Wallet == [kind |-> "wallet", n |-> 0]

Generated(n) == [kind |-> "generated", n |-> n]

\* Keypair.fromSecretKey(Uint8Array.from([208, 175, ...])): the key of those 64 bytes
FromSecretKey == [kind |-> "secret", n |-> 0]

\* PublicKey.findProgramAddressSync(['metadata', TOKEN_METADATA_PROGRAM_ID, mint],
\* TOKEN_METADATA_PROGRAM_ID): one address per mint
GetMetadataPDA(mint) == [kind |-> "pda", n |-> mint.n, of |-> mint.kind]

\* the statement after which the revision derives metadataAddress
MetadataDerivedAt(r) ==
  CASE r \in {"ctA", "ctB", "p014"} -> "keygen"
    [] r \in {"p008", "p012"}       -> "createMint"
    [] OTHER                         -> "never"

\* the keypair createToken pays the spl-token helpers with
PayerKeypair(r, generatedSoFar) ==
  IF r = "p007" THEN FromSecretKey ELSE Generated(generatedSoFar + 1)

\* a mint authority that follows the mintAuthority flag of the form
MintAuthorityByFlag(r, d, l) ==
  IF d.hasAuthorities /\ d.mintAuthority THEN Wallet ELSE l.mintKeypair

\* createMint(connection, payer, mintAuthority, ...): the mint authority argument
MintAuthority(r, d, l) ==
  IF r = "p007"
  THEN (IF d.hasAuthorities /\ d.mintAuthority THEN Wallet ELSE l.mintKeypair)
  ELSE Wallet

\* data.authorities?.freezeAuthority ? new PublicKey(data.walletAddress) : null
FreezeAuthority(d) ==
  IF d.hasAuthorities /\ d.freezeAuthority THEN Wallet ELSE NoAddress

\* createMetadataInstruction(metadataAddress, mint, mintAuthority, payer,
\* updateAuthority, ...): the update authority of the transaction that carries it
UpdateAuthority(d, name) ==
  IF name \in {"createMetadata", "final", "metadata"} THEN Wallet ELSE NoAddress

\* what getLatestBlockhash returns: the fetch-th answer of this call, taken when the
\* chain had seen tip steps of the request
Blockhash(fetch, tip) == [fetch |-> fetch, tip |-> tip]

NoBlockhash == Blockhash(0, 0)

\* the transaction in hand: after signing, the blockhash it carries and its place in
\* the log; after confirmTransaction, the blockhash of the confirmation strategy
NoTx ==
  [name |-> "none", transfers |-> << >>, signatures |-> 0, blockhash |-> NoBlockhash,
   index |-> 0, polled |-> NoBlockhash, updateAuthority |-> NoAddress]

NoError == [type |-> "none", at |-> "none", detail |-> "none"]

NoResult == [success |-> FALSE]

Error(type, at, detail) == [type |-> type, at |-> at, detail |-> detail]

Zero == DFromNat(0)

InitialLocals ==
  [serviceFee |-> Zero, serviceFeeInLamports |-> Zero, mintRent |-> 0,
   tokenAccountRent |-> 0, metadataRent |-> 0, totalRequired |-> Zero, balance |-> 0,
   mintKeypair |-> NoAddress, metadataAddress |-> NoAddress, mint |-> NoAddress,
   mintAuthority |-> NoAddress, freezeAuthority |-> NoAddress, decimals |-> NaN,
   endpoint |-> Undefined, payerSpent |-> 0, tokenAccount |-> 0, mintedTo |-> 0,
   waits |-> 0, supplyNumber |-> SupplyNumber(<< >>),
   fetches |-> 0, blockhash |-> NoBlockhash, confirmBlockhash |-> NoBlockhash]

\* the page as it is first rendered: step 1, no TokenCreationStep3 mounted yet
FirstRender ==
  /\ currentStep = 1
  /\ isCreating = FALSE
  /\ view = [step |-> 1, disabled |-> FALSE]
  /\ instance = 0
  /\ mounts = 0
  /\ clicks = 0
  /\ requests = << >>
  /\ toasts = << >>

\* one createToken call is followed from its entry; the page around it does not move
Init ==
  /\ rev \in Revisions
  /\ data \in ValidRequests
  /\ env \in Environments
  /\ rents \in [mint : MintRents, token : TokenRents, metadata : MetadataRents]
  /\ chain \in [wallet : Balances, feeCollector : {0}, mintKeypair : {0},
                metadataAddress : {0}]
  /\ component = "part_001"
  /\ useWallet = [publicKey |-> TRUE, signTransaction |-> TRUE]
  /\ FirstRender
  /\ pc = 1
  /\ ctl = "try"
  /\ loc = InitialLocals
  /\ debited = 0
  /\ curTx = NoTx
  /\ log = << >>
  /\ exc = NoError
  /\ retries = 0
  /\ outcome = "running"
  /\ result = NoResult
  /\ calls = 1
  /\ keys = 0
  /\ payers = << >>

Cur == Program(rev)[pc]

At(op) ==
  /\ ctl = "try"
  /\ pc <= Len(Program(rev))
  /\ Cur.op = op

\* a rejected await or a throw statement: control passes to the catch block
Throw(e) ==
  /\ exc' = e
  /\ ctl' = "catch"
  /\ UNCHANGED pc

Continue ==
  /\ pc' = pc + 1
  /\ UNCHANGED << ctl, exc >>

\* const connection = new Connection(getFormattedEndpoint(QUICKNODE_ENDPOINT), ...)
Connect ==
  /\ At("connect")
  /\ IF EndpointConfigured(rev, env)
     THEN /\ loc' = [loc EXCEPT !.endpoint = CallEndpoint(rev, env)]
          /\ Continue
     ELSE /\ Throw(Error("Error", "connect", "QuickNode endpoint is not configured"))
          /\ UNCHANGED loc
  /\ UNCHANGED << wizard, session, rev, data, env, rents, chain, debited, curTx, log, retries, outcome,
                  result >>

(***************************************************************************)
(* Cost Estimator: the RPC queries.                                        *)
(***************************************************************************)
RpcResult(call, l) ==
  CASE call = "rentMint"     -> [l EXCEPT !.mintRent = MintRent(rev, rents.mint)]
    [] call = "rentToken"    -> [l EXCEPT !.tokenAccountRent = rents.token]
    [] call = "rentMetadata" -> [l EXCEPT !.metadataRent = rents.metadata]
    [] call = "getBalance"   -> [l EXCEPT !.balance = chain.wallet]
    [] call = "getLatestBlockhash" ->
         [l EXCEPT !.fetches = @ + 1, !.blockhash = Blockhash(l.fetches + 1, Len(log))]
    [] call = "confirmBlockhash" ->
         [l EXCEPT !.fetches = @ + 1,
                   !.confirmBlockhash = Blockhash(l.fetches + 1, Len(log))]
    [] OTHER                 -> l

\* the error a rejected RPC call leaves in the catch block: the probe's own message
\* when the call is wrapped, the RPC client's error otherwise
RpcError(step) ==
  IF step.wrap THEN Error("Error", step.call, "Failed to connect to Solana network")
  ELSE Error("RpcError", step.call, "rejected")

RpcCall ==
  /\ At("rpc")
  /\ \/ /\ loc' = RpcResult(Cur.call, loc)
        /\ Continue
     \/ /\ Throw(RpcError(Cur))
        /\ UNCHANGED loc
  /\ UNCHANGED << wizard, session, rev, data, env, rents, chain, debited, curTx, log, retries, outcome,
                  result >>

ComputeFee ==
  /\ At("fee")
  /\ loc' = [loc EXCEPT !.serviceFee = ServiceFee(rev, data),
                        !.serviceFeeInLamports =
                            ServiceFeeInLamports(rev, ServiceFee(rev, data))]
  /\ Continue
  /\ UNCHANGED << wizard, session, rev, data, env, rents, chain, debited, curTx, log, retries, outcome,
                  result >>

ComputeTotal ==
  /\ At("total")
  /\ loc' = [loc EXCEPT !.metadataRent = MetadataRent(rev, loc.metadataRent),
                        !.totalRequired =
                            TotalRequired(rev, loc.serviceFeeInLamports, loc.mintRent,
                                          loc.tokenAccountRent,
                                          MetadataRent(rev, loc.metadataRent))]
  /\ Continue
  /\ UNCHANGED << wizard, session, rev, data, env, rents, chain, debited, curTx, log, retries, outcome,
                  result >>

(***************************************************************************)
(* Balance Guard: if (balance < totalRequired) throw new Error(...)        *)
(***************************************************************************)
InsufficientBalance(balance, totalRequired) ==
  DLess(DFromNat(balance), totalRequired)

BalanceGuard ==
  /\ At("guard")
  /\ IF InsufficientBalance(loc.balance, loc.totalRequired)
     THEN Throw(Error("InsufficientBalance", "guard", MessageComponents(rev)))
     ELSE Continue
  /\ UNCHANGED << wizard, session, rev, data, env, rents, loc, chain, debited, curTx, log, retries,
                  outcome, result >>

\* const mintKeypair = Keypair.generate()
GenerateKeypair ==
  /\ At("keygen")
  /\ LET payer == PayerKeypair(rev, keys)
     IN  /\ loc' = [loc EXCEPT !.mintKeypair = payer,
                               !.metadataAddress =
                                   IF MetadataDerivedAt(rev) = "keygen"
                                   THEN GetMetadataPDA(payer) ELSE @]
         /\ keys' = (IF payer.kind = "generated" THEN keys + 1 ELSE keys)
         /\ payers' = Append(payers, payer)
  /\ Continue
  /\ UNCHANGED << wizard, calls, rev, data, env, rents, chain, debited, curTx, log, retries,
                  outcome, result >>

(***************************************************************************)
(* Submission and confirmation of the wallet-signed transactions.          *)
(***************************************************************************)
\* SystemProgram.transfer takes "lamports: number | bigint": a BigInt build throws a
\* RangeError on a number that is not an integer
Encodable(transfers, e) ==
  \A i \in 1..Len(transfers) : DIsInteger(transfers[i].lamports) \/ ~e.bigintLamports

\* the lamports the instruction carries on the wire
Encoded(transfers) ==
  [i \in 1..Len(transfers) |->
     [to |-> transfers[i].to, lamports |-> DFloor(transfers[i].lamports)]]

BuildTransaction ==
  /\ At("build")
  /\ IF NeedsCollectorKey(Cur.tx) /\ ~CollectorConfigured(rev, env)
     THEN /\ Throw(Error("TypeError", Cur.tx, "Invalid public key input"))
          /\ UNCHANGED curTx
     ELSE IF ~Encodable(TxTransfers(rev, Cur.tx, loc, env), env)
     THEN /\ Throw(Error("RangeError", Cur.tx, "lamports is not an integer"))
          /\ UNCHANGED curTx
     ELSE /\ curTx' = [NoTx EXCEPT
                         !.name = Cur.tx,
                         !.transfers = Encoded(TxTransfers(rev, Cur.tx, loc, env)),
                         !.signatures = TxSignatures(Cur.tx),
                         !.updateAuthority = UpdateAuthority(data, Cur.tx)]
          /\ Continue
  /\ UNCHANGED << wizard, session, rev, data, env, rents, loc, chain, debited, log, retries, outcome,
                  result >>

Entry(op, st, err) == [op |-> op, st |-> st, err |-> err]

\* the last entry of the log ends as st
Ended(st, err) ==
  [log EXCEPT ![Len(log)] = Entry(log[Len(log)].op, st, err)]

\* a signTransaction whose rejection is swallowed: the flow goes on to send
SignTransactionRejectionIgnored ==
  /\ At("sign")
  /\ curTx' = [curTx EXCEPT !.blockhash = loc.blockhash, !.index = Len(log) + 1]
  /\ \/ log' = Append(log, Entry(curTx.name, "signed", "none"))
     \/ log' = Append(log, Entry(curTx.name, "rejected", "none"))
  /\ Continue
  /\ UNCHANGED << wizard, session, rev, data, env, rents, loc, chain, debited, retries, outcome,
                  result >>

\* await data.signTransaction(tx): the wallet signs, or the user declines
\* tx.recentBlockhash = blockhash: the latest one the main flow fetched
SignTransaction ==
  /\ At("sign")
  /\ curTx' = [curTx EXCEPT !.blockhash = loc.blockhash, !.index = Len(log) + 1]
  /\ \/ /\ log' = Append(log, Entry(curTx.name, "signed", "none"))
        /\ Continue
     \/ /\ log' = Append(log, Entry(curTx.name, "rejected", "none"))
        /\ Throw(Error("SigningRejected", curTx.name, "rejected"))
  /\ UNCHANGED << wizard, session, rev, data, env, rents, loc, chain, debited, retries, outcome,
                  result >>

\* await connection.sendRawTransaction(signed.serialize()): broadcast, or preflight fails
SendTransaction ==
  /\ At("send")
  /\ \/ /\ log' = Ended("pending", "none")
        /\ Continue
     \/ /\ log' = Ended("notSent", "none")
        /\ Throw(Error("SendTransactionError", curTx.name, "rejected"))
  /\ UNCHANGED << wizard, session, rev, data, env, rents, loc, chain, debited, curTx, retries, outcome,
                  result >>

\* the accounts after the transfers of tx, paid with fee, have executed
Landed(c, tx, fee) ==
  [c EXCEPT !.wallet = @ - SumLamports(tx.transfers) - fee,
            !.feeCollector = @ + SumTo(tx.transfers, "feeCollector"),
            !.mintKeypair = @ + SumTo(tx.transfers, "mintKeypair"),
            !.metadataAddress = @ + SumTo(tx.transfers, "metadataAddress")]

\* what the code does with a confirmation whose value.err is set
AfterChainError(step, name, e) ==
  IF step.check THEN Throw(Error("TransactionFailed", name, e)) ELSE Continue

\* the blockhash of the confirmation strategy: the variable the transaction was stamped
\* with; the helper of part_009 fetches one of its own; confirmTransaction(signature)
\* of part_007 passes none
PolledBlockhash(r, l) ==
  CASE r = "p009" -> l.confirmBlockhash
    [] r = "p007" -> NoBlockhash
    [] OTHER      -> l.blockhash

\* await connection.confirmTransaction(strategy): the transaction executed, executed
\* with an error (value.err, the fee is still charged), or expired (the call rejects)
ConfirmTransaction ==
  /\ At("confirm")
  /\ LET cost == SumLamports(curTx.transfers)
         fee  == TX_FEE * curTx.signatures
     IN  \/ /\ chain.wallet >= cost + fee
            /\ chain' = Landed(chain, curTx, fee)
            /\ debited' = debited + cost + fee
            /\ log' = Ended("confirmed", "none")
            /\ Continue
         \/ \E e \in ChainErrors :
              /\ e = "InsufficientFunds" => chain.wallet < cost + fee
              /\ chain.wallet >= fee
              /\ chain' = [chain EXCEPT !.wallet = @ - fee]
              /\ debited' = debited + fee
              /\ log' = Ended("failed", e)
              /\ AfterChainError(Cur, curTx.name, e)
         \/ /\ log' = Ended("expired", "none")
            /\ Throw(Error("TransactionExpired", curTx.name, "block height exceeded"))
            /\ UNCHANGED << chain, debited >>
  /\ curTx' = [curTx EXCEPT !.polled = PolledBlockhash(rev, loc)]
  /\ UNCHANGED << wizard, session, rev, data, env, rents, loc, retries, outcome, result >>

(***************************************************************************)
(* The spl-token helpers createMint, getOrCreateAssociatedTokenAccount and *)
(* mintTo: each sends and confirms its own transaction, paid by            *)
(* mintKeypair, and rejects when that fails.                               *)
(***************************************************************************)
\* createMint(connection, payer, mintAuthority, freezeAuthority, decimals, keypair):
\* the mint is at keypair, a fresh Keypair.generate() unless the caller passes one
MintAddress(r, l, generatedSoFar) ==
  IF r = "p012" THEN l.mintKeypair ELSE Generated(generatedSoFar + 1)

\* the locals after createMint has returned the mint
MintCreated(r, d, l, mint) ==
  [l EXCEPT !.mint = mint,
            !.mintAuthority = MintAuthority(r, d, l),
            !.freezeAuthority = FreezeAuthority(d),
            !.decimals = d.decimals,
            !.metadataAddress =
                IF MetadataDerivedAt(r) = "createMint" THEN GetMetadataPDA(mint) ELSE @]

\* a catch that logs the helper's error and goes on
AfterLibraryErrorSwallowed(step, left, e) ==
  /\ retries' = left
  /\ Continue

\* the loop with "if (retries < 0) throw error"
AfterLibraryErrorOneMore(step, left, e) ==
  IF step.retry /\ left - 1 >= 0
  THEN /\ retries' = left - 1
       /\ ctl' = "wait"
       /\ UNCHANGED << pc, exc >>
  ELSE /\ retries' = (IF step.retry THEN left - 1 ELSE left)
       /\ Throw(Error("TokenError", step.call, e))

\* the loop of part_009: retries--; if (retries === 0) throw error; else wait and retry
AfterLibraryError(step, left, e) ==
  IF step.retry /\ left - 1 > 0
  THEN /\ retries' = left - 1
       /\ ctl' = "wait"
       /\ UNCHANGED << pc, exc >>
  ELSE /\ retries' = (IF step.retry THEN left - 1 ELSE left)
       /\ Throw(Error("TokenError", step.call, e))

\* signatures of the helper's transaction: the payer, and for createMint the keypair of
\* the new mint account when it is not the payer's
LibrarySignatures(r, call) ==
  IF call = "createMint" /\ r # "p012" THEN 2 ELSE 1

\* what a helper's transaction takes from its payer: the rent of the account it creates,
\* as the cluster charges it, and the fee
LibraryCost(r, call, q) ==
  (CASE call = "createMint" -> q.mint
     [] call = "getOrCreateAssociatedTokenAccount" -> q.token
     [] OTHER -> 0)
  + TX_FEE * LibrarySignatures(r, call)

PayerCharged(l, cost) ==
  [l EXCEPT !.payerSpent = @ + cost]

\* mintTo(connection, payer, mint, tokenAccount.address, ...): the destination
\* and the amount
MintToIssued(d, l) ==
  [l EXCEPT !.mintedTo = l.tokenAccount, !.supplyNumber = SupplyNumber(d.supply)]

LibraryCall ==
  /\ At("lib")
  /\ \/ /\ log' = Append(log, Entry(Cur.call, "confirmed", "none"))
        /\ loc' = PayerCharged(
                     CASE Cur.call = "createMint" ->
                            MintCreated(rev, data, loc, MintAddress(rev, loc, keys))
                       [] Cur.call = "getOrCreateAssociatedTokenAccount" ->
                            [loc EXCEPT !.tokenAccount = Len(log) + 1]
                       [] OTHER -> MintToIssued(data, loc),
                     LibraryCost(rev, Cur.call, rents))
        /\ keys' = (IF Cur.call = "createMint" /\ rev # "p012" THEN keys + 1 ELSE keys)
        /\ Continue
        /\ UNCHANGED retries
     \/ \E e \in ChainErrors :
          /\ log' = Append(log, Entry(Cur.call, "failed", e))
          /\ AfterLibraryError(Cur, retries, e)
          /\ loc' = (IF Cur.call = "mintTo" THEN MintToIssued(data, loc) ELSE loc)
          /\ UNCHANGED keys
  /\ UNCHANGED << wizard, calls, payers, rev, data, env, rents, chain, debited, curTx, outcome,
                  result >>

\* a wait whose timer never hands control back to the loop
WaitNeverResumes ==
  /\ ctl = "wait"
  /\ UNCHANGED vars

\* await new Promise(resolve => setTimeout(resolve, 1000)): the timer fires and the
\* loop tries again
Wait ==
  /\ ctl = "wait"
  /\ ctl' = "try"
  /\ loc' = [loc EXCEPT !.waits = @ + 1]
  /\ UNCHANGED << wizard, session, rev, data, env, rents, pc, chain, debited, curTx, log, exc,
                  retries, outcome, result >>

\* let retries = 3
InitRetries ==
  /\ At("retries")
  /\ retries' = RetryCount
  /\ Continue
  /\ UNCHANGED << wizard, session, rev, data, env, rents, loc, chain, debited, curTx, log, outcome,
                  result >>

\* await confirmTransaction(connection, mintSignature) of part_009
Reconfirm ==
  /\ At("reconfirm")
  /\ \/ Continue
     \/ Throw(Error("TransactionExpired", "mintTo", "block height exceeded"))
  /\ UNCHANGED << wizard, session, rev, data, env, rents, loc, chain, debited, curTx, log, retries,
                  outcome, result >>

(***************************************************************************)
(* Result Aggregator.                                                      *)
(***************************************************************************)
\* feeAmount of the result: the fee in SOL, or the literal 0.05 of part_012
FeeAmount(r, l) ==
  IF r = "p012" THEN DFromRatio(5, 100) ELSE l.serviceFee

\* the transaction whose signature is returned as feeTransaction
FeeTransaction(r) ==
  CASE r \in {"ctA", "p007", "p008", "p014"} -> "fee"
    [] r = "ctB"             -> "setup"
    [] r = "p006"            -> "combined"
    [] r = "p012"            -> "metadata"
    [] OTHER                 -> "none"

Result(r, l) ==
  [success |-> TRUE,
   tokenAddress |-> l.mint,
   metadataAddress |-> l.metadataAddress,
   feeAmount |-> FeeAmount(r, l),
   feeTransaction |-> FeeTransaction(r)]

Return ==
  /\ At("return")
  /\ outcome' = "returned"
  /\ result' = Result(rev, loc)
  /\ ctl' = "done"
  /\ UNCHANGED << wizard, session, rev, data, env, rents, pc, loc, chain, debited, curTx, log, exc,
                  retries >>

\* catch (error) { console.error(...); throw error; }
Catch ==
  /\ ctl = "catch"
  /\ outcome' = "thrown"
  /\ ctl' = "done"
  /\ UNCHANGED << wizard, session, rev, data, env, rents, pc, loc, chain, debited, curTx, log, exc,
                  retries, result >>

\* the page calls createToken again: a new call starts with its own locals; the key
\* generator and the payers of the earlier calls are what remains of them
NewCall ==
  /\ ctl = "done"
  /\ calls < MaxCalls
  /\ calls' = calls + 1
  /\ data' = BaseRequest
  /\ chain' = [wallet |-> CHOOSE b \in Balances : \A c \in Balances : c <= b,
               feeCollector |-> 0, mintKeypair |-> 0, metadataAddress |-> 0]
  /\ pc' = 1
  /\ ctl' = "try"
  /\ loc' = InitialLocals
  /\ debited' = 0
  /\ curTx' = NoTx
  /\ log' = << >>
  /\ exc' = NoError
  /\ retries' = 0
  /\ outcome' = "running"
  /\ result' = NoResult
  /\ UNCHANGED << wizard, rev, env, rents, keys, payers >>

Next ==
  \/ NewCall
  \/ Connect
  \/ RpcCall
  \/ ComputeFee
  \/ ComputeTotal
  \/ BalanceGuard
  \/ GenerateKeypair
  \/ BuildTransaction
  \/ SignTransaction
  \/ SendTransaction
  \/ ConfirmTransaction
  \/ LibraryCall
  \/ InitRetries
  \/ Wait
  \/ Reconfirm
  \/ Return
  \/ Catch

Spec == Init /\ [][Next]_vars

\* the steps that run when something awaited settles: a promise, a timer, the next
\* submission of the form
Awaited ==
  \/ NewCall
  \/ RpcCall
  \/ GenerateKeypair
  \/ SignTransaction
  \/ SendTransaction
  \/ ConfirmTransaction
  \/ InitRetries
  \/ Wait
  \/ Reconfirm
  \/ Catch

\* the steps that are plain computation between two awaits
Synchronous ==
  \/ ComputeFee
  \/ ComputeTotal
  \/ BalanceGuard
  \/ BuildTransaction
  \/ Return
  \/ Connect

AtSynchronous ==
  \/ At("fee")
  \/ At("total")
  \/ At("guard")
  \/ At("build")
  \/ At("return")
  \/ At("connect")

\* the steps that are enabled exactly when the call stands at them: the synchronous
\* ones, and the continuation of an awaited spl-token helper that has settled
Stepwise ==
  \/ Synchronous
  \/ LibraryCall

AtStepwise ==
  \/ AtSynchronous
  \/ At("lib")

\* weak fairness of Stepwise, stated on the place of the call
SynchronousStepsRun ==
  \/ []<>(~AtStepwise)
  \/ []<><<Stepwise>>_vars

\* every awaited call settles and the event loop runs the continuation that is ready:
\* a step that can be taken is eventually taken
FairSpec == Spec /\ WF_vars(Awaited) /\ SynchronousStepsRun

(***************************************************************************)
(* The wizard.  The page shows one step at a time and mounts               *)
(* TokenCreationStep3 while currentStep is 3.  A click handler runs to its  *)
(* first await in one piece; React commits the state it set afterwards, and *)
(* the buttons the user can click are those of the last commit.  A request  *)
(* is one promise to the handler: it is fulfilled or rejected.             *)
(***************************************************************************)
\* clicks on the Create button in one page session
MaxClicks == 3

\* TokenCreationStep3 instances mounted in one page session
MaxMounts == 2

\* the two TokenCreationStep3 components: the one that calls createToken and the one
\* that posts to /api/create-token
Components == {"part_001", "TokenCreationStep3"}

\* if (!publicKey || !signTransaction), if (!publicKey): the wallet test of the handler
WalletReady(c, w) ==
  IF c = "part_001" THEN w.publicKey /\ w.signTransaction ELSE w.publicKey

WizardInit ==
  /\ component \in Components
  /\ useWallet \in [publicKey : BOOLEAN, signTransaction : BOOLEAN]
  /\ FirstRender
  /\ rev = "ctA"
  /\ data = BaseRequest
  /\ env = [feeCollector |-> TRUE, bigintLamports |-> FALSE, endpoint |-> QuickNode]
  /\ rents = CHOOSE r \in [mint : MintRents, token : TokenRents,
                            metadata : MetadataRents] : TRUE
  /\ chain = [wallet |-> 0, feeCollector |-> 0, mintKeypair |-> 0, metadataAddress |-> 0]
  /\ pc = 1
  /\ ctl = "try"
  /\ loc = InitialLocals
  /\ debited = 0
  /\ curTx = NoTx
  /\ log = << >>
  /\ exc = NoError
  /\ retries = 0
  /\ outcome = "running"
  /\ result = NoResult
  /\ calls = 1
  /\ keys = 0
  /\ payers = << >>

\* handlePrevStep, from the Previous button of the last commit:
\* if (currentStep > 1) setCurrentStep(currentStep - 1)
HandlePrevStep ==
  /\ view.step > 1
  /\ currentStep' = view.step - 1
  /\ UNCHANGED << component, useWallet, isCreating, view, instance, mounts, clicks,
                  requests, toasts, createTokenState >>

\* handleNextStep, from the Next Step button of the last commit:
\* if (currentStep < 3) setCurrentStep(currentStep + 1)
HandleNextStep ==
  /\ view.step < 3
  /\ view.step = 2 => mounts < MaxMounts
  /\ currentStep' = view.step + 1
  /\ UNCHANGED << component, useWallet, isCreating, view, instance, mounts, clicks,
                  requests, toasts, createTokenState >>

\* React commits: {currentStep === 3 && <TokenCreationStep3 />} mounts a new instance
\* with useState(false) or unmounts the one there is; disabled={isCreating}
Render ==
  /\ view # [step |-> currentStep, disabled |-> currentStep = 3 /\ isCreating]
  /\ IF currentStep = 3 /\ view.step # 3
     THEN /\ mounts' = mounts + 1
          /\ instance' = mounts + 1
          /\ isCreating' = FALSE
          /\ view' = [step |-> 3, disabled |-> FALSE]
     ELSE IF currentStep # 3 /\ view.step = 3
     THEN /\ instance' = 0
          /\ isCreating' = FALSE
          /\ view' = [step |-> currentStep, disabled |-> FALSE]
          /\ UNCHANGED mounts
     ELSE /\ view' = [step |-> currentStep, disabled |-> currentStep = 3 /\ isCreating]
          /\ UNCHANGED << mounts, instance, isCreating >>
  /\ UNCHANGED << component, useWallet, currentStep, clicks, requests, toasts,
                  createTokenState >>

\* a click on the Create button of the last commit runs handleCreateToken up to its
\* await: the wallet test, setIsCreating(true), createToken({...}) or fetch(...)
HandleCreateToken ==
  /\ view.step = 3
  /\ ~view.disabled
  /\ clicks < MaxClicks
  /\ clicks' = clicks + 1
  /\ IF ~WalletReady(component, useWallet)
     THEN /\ toasts' = Append(toasts, "Error")
          /\ UNCHANGED << isCreating, requests >>
     ELSE /\ isCreating' = TRUE
          /\ requests' = Append(requests, [by |-> instance, state |-> "pending"])
          /\ UNCHANGED toasts
  /\ UNCHANGED << component, useWallet, currentStep, view, instance, mounts,
                  createTokenState >>

\* the awaited request settles and the handler runs on: the toast of the try or of the
\* catch block, then finally { setIsCreating(false) }, which reaches the instance that
\* started the request if it is still mounted
RequestSettles ==
  \E i \in DOMAIN requests, how \in {"fulfilled", "rejected"} :
    /\ requests[i].state = "pending"
    /\ requests' = [requests EXCEPT ![i].state = how]
    /\ toasts' = Append(toasts, IF how = "fulfilled" THEN "Success!" ELSE "Error")
    /\ isCreating' = (IF requests[i].by = instance THEN FALSE ELSE isCreating)
    /\ UNCHANGED << component, useWallet, currentStep, view, instance, mounts, clicks,
                    createTokenState >>

WizardNext ==
  \/ HandlePrevStep
  \/ HandleNextStep
  \/ Render
  \/ HandleCreateToken
  \/ RequestSettles

WizardSpec == WizardInit /\ [][WizardNext]_vars
(***************************************************************************)
(* Properties.                                                             *)
(***************************************************************************)
TxNames ==
  {"fee", "fundMetadata", "fundMint", "createMetadata", "setup", "final", "combined",
   "funding", "createAccount", "metadata"}

EstimationCalls ==
  {"getVersion", "rentMint", "rentToken", "rentMetadata", "getBalance"}

TokenAccountCall == "getOrCreateAssociatedTokenAccount"

\* number of selected authorities plus one for creator metadata
SelectedCount(d) ==
  (IF d.hasAuthorities /\ d.freezeAuthority THEN 1 ELSE 0)
  + (IF d.hasAuthorities /\ d.mintAuthority THEN 1 ELSE 0)
  + (IF d.hasAuthorities /\ d.updateAuthority THEN 1 ELSE 0)
  + (IF d.creatorName THEN 1 ELSE 0)

\* every step begun so far was confirmed without error
AllConfirmed ==
  \A i \in 1..Len(log) : log[i].st = "confirmed"

\* a run that returned with every one of its steps confirmed without error
SuccessfulRun ==
  outcome = "returned" /\ AllConfirmed

\* entry i is an attempt of the token-account loop that the loop repeats
RetriedAttempt(i) ==
  /\ i < Len(log)
  /\ log[i].op = TokenAccountCall
  /\ log[i].st = "failed"
  /\ log[i + 1].op = TokenAccountCall

\* C1: no chain-mutating step begins until the step before it was confirmed on-chain
\* without error, and at most one transaction is broadcast and unconfirmed at a time
C1_StepsWaitForConfirmation ==
  rev \in {"ctA", "ctB"} =>
  /\ \A i \in 1..(Len(log) - 1) : log[i].st = "confirmed" \/ RetriedAttempt(i)
  /\ Cardinality({i \in 1..Len(log) : log[i].st = "pending"}) <= 1

\* C2: in a successful run of the sequential revision the wallet has paid exactly
\* totalRequired
C2_DebitsEqualTotalRequired ==
  (rev = "ctA" /\ SuccessfulRun) => DFromNat(debited) = loc.totalRequired

\* C3: mintTo is issued only after createMint and the token-account creation have
\* succeeded; after a failed createMint, or a token-account creation that gave up,
\* mintTo is never issued
C3_MintToAfterMintCreated ==
  /\ \A j \in 1..Len(log) :
       log[j].op = "mintTo" =>
         /\ \E i \in 1..(j - 1) : log[i].op = "createMint" /\ log[i].st = "confirmed"
         /\ log[j - 1].op = TokenAccountCall /\ log[j - 1].st = "confirmed"
  /\ \A i \in 1..Len(log) :
       (log[i].op = "createMint" /\ log[i].st = "failed") =>
         \A j \in 1..Len(log) : log[j].op # "mintTo"
  /\ (exc.type = "TokenError" /\ exc.at \in {"createMint", TokenAccountCall}) =>
       \A j \in 1..Len(log) : log[j].op # "mintTo"

\* mintTo was issued after a token-account attempt failed and a later one succeeded
C3_Witness ==
  \E j \in 1..Len(log) :
    /\ log[j].op = "mintTo"
    /\ \E i \in 1..(j - 1) : log[i].op = TokenAccountCall /\ log[i].st = "failed"

\* the balance guard has run
GuardRan ==
  /\ \E i \in 1..Len(Program(rev)) : Program(rev)[i].op = "guard"
  /\ \/ pc > CHOOSE i \in 1..Len(Program(rev)) : Program(rev)[i].op = "guard"
     \/ exc.at = "guard"

\* C4: whenever the balance read is below the total required, createToken rejects
\* with an insufficient-balance error before anything is signed, and the message
\* itemises every cost component
C4_GuardRejectsItemised ==
  (/\ rev \in {"ctA", "ctB", "p009"}
   /\ GuardRan
   /\ InsufficientBalance(loc.balance, loc.totalRequired)) =>
    /\ exc.type = "InsufficientBalance"
    /\ exc.detail = CostComponents
    /\ log = << >>

\* C5: a failed RPC call of the cost estimation ends createToken with the connection
\* error of that call, with nothing signed or broadcast and nothing debited
C5_EstimationFailureDebitsNothing ==
  (exc.at \in EstimationCalls) =>
    /\ exc.type \in {"Error", "RpcError"}
    /\ exc.at = "getVersion" =>
         exc.type = "Error" /\ exc.detail = "Failed to connect to Solana network"
    /\ log = << >>
    /\ debited = 0
    /\ chain.feeCollector = 0 /\ chain.mintKeypair = 0 /\ chain.metadataAddress = 0
    /\ outcome # "returned"
    /\ ctl = "done" => outcome = "thrown"

\* the balance query failed and createToken has thrown
C5_Witness ==
  exc.at = "getBalance" /\ outcome = "thrown"

\* C6: a transaction of createToken whose confirmation reports an execution error
\* makes createToken fail with that error, and no later step runs
C6_ChainErrorStopsRun ==
  \A i \in 1..Len(log) :
    (rev \in {"ctA", "ctB"} /\ log[i].op \in TxNames /\ log[i].st = "failed") =>
      /\ i = Len(log)
      /\ ctl # "try"
      /\ exc.type = "TransactionFailed" /\ exc.at = log[i].op /\ exc.detail = log[i].err

\* the fee transfer was confirmed
FeePaid ==
  \E i \in 1..Len(log) :
    log[i].op \in {"fee", "setup", "combined", "funding"} /\ log[i].st = "confirmed"

\* a step after the fee payment failed (an attempt the loop repeats is no failure)
FailedAfterFee ==
  /\ FeePaid
  /\ \/ exc # NoError
     \/ \E i \in 1..Len(log) : log[i].st \notin {"confirmed", "signed", "pending"}
                               /\ ~RetriedAttempt(i)

\* C7: when a step after the confirmed fee payment fails, nothing is transferred back,
\* the call ends in failure and the fee collector keeps the fee it was sent
C7_FailureKeepsFee ==
  (rev = "ctA" /\ FailedAfterFee) =>
    /\ chain.feeCollector = DFloor(loc.serviceFeeInLamports)
    /\ chain.wallet + debited = loc.balance
    /\ ctl = "done" => outcome = "thrown" /\ result = NoResult

\* C8: createToken returns a success result with the token address or throws, and never
\* returns once a step has failed
C8_SuccessOrThrow ==
  rev \in {"ctA", "ctB"} =>
  /\ outcome \in {"running", "returned", "thrown"}
  /\ outcome = "returned" =>
       /\ result.success /\ result.tokenAddress # NoAddress
       /\ exc = NoError
       /\ \A i \in 1..Len(log) : log[i].st = "confirmed" \/ RetriedAttempt(i)
  /\ outcome = "thrown" => result = NoResult /\ exc # NoError

\* the fee step has run
FeeComputed ==
  loc.serviceFee # Zero

\* C9: the service fee in lamports is exactly 50,000,000 + 100,000,000 per selected
\* authority and per creator metadata
C9_FeeIsExact ==
  (rev \in {"ctA", "p014"} /\ FeeComputed) =>
    loc.serviceFeeInLamports = DFromNat(50000000 + 100000000 * SelectedCount(data))

\* C10: in a successful run the fee collector received feeAmount * 10^9 lamports, which
\* is 0.45 SOL with all three authorities and creator metadata
C10_CollectedEqualsFeeAmount ==
  (rev \in {"ctA", "p006", "p012"} /\ SuccessfulRun) =>
    /\ DFromNat(chain.feeCollector) = DMul(result.feeAmount, DFromNat(LAMPORTS_PER_SOL))
    /\ SelectedCount(data) = 4 =>
         /\ chain.feeCollector = 450000000
         /\ result.feeAmount = DFromRatio(45, 100)

\* C11: the metadata address createToken funds, passes on and returns is the
\* program-derived address of the mint that was created and is returned as tokenAddress
C11_MetadataAddressOfCreatedMint ==
  (rev \in {"ctA", "p008"} /\ loc.mint # NoAddress) =>
    /\ loc.metadataAddress = GetMetadataPDA(loc.mint)
    /\ outcome = "returned" =>
         result.metadataAddress = GetMetadataPDA(result.tokenAddress)

\* C12: the mint is initialised with the requester's wallet as mint authority, and with
\* the wallet as freeze authority exactly when authorities.freezeAuthority is true
C12_AuthoritiesOfMint ==
  (rev \in {"ctA", "ctB", "p007"} /\ loc.mint # NoAddress) =>
    /\ loc.mintAuthority = Wallet
    /\ loc.freezeAuthority = Wallet <=> (data.hasAuthorities /\ data.freezeAuthority)
    /\ loc.freezeAuthority \in {Wallet, NoAddress}

\* C13: no two createToken calls use the same mint keypair as payer
C13_FreshKeypairPerCall ==
  rev \in {"ctA", "ctB", "p007"} =>
    \A i \in 1..Len(payers) : \A j \in 1..Len(payers) : i # j => payers[i] # payers[j]

\* the attempts of the token-account loop so far
Attempts ==
  {i \in 1..Len(log) : log[i].op = TokenAccountCall}

FailedAttempts ==
  {i \in Attempts : log[i].st = "failed"}

\* C14: the token-account creation of part_009 is attempted at most 3 times with a wait
\* between attempts; the first success ends the loop and its account is minted to; after
\* three failures the error of the third is thrown and mintTo is never issued
C14_ThreeAttemptsThenThrow ==
  rev = "p009" =>
    /\ Cardinality(Attempts) <= 3
    /\ Attempts # {} => loc.waits >= Cardinality(Attempts) - 1
    /\ \A i \in Attempts : log[i].st = "confirmed" => \A j \in Attempts : j <= i
    /\ \A k \in 1..Len(log) :
         log[k].op = "mintTo" =>
           /\ loc.mintedTo \in Attempts
           /\ log[loc.mintedTo].st = "confirmed"
    /\ Cardinality(FailedAttempts) = 3 =>
         /\ ctl \in {"catch", "done"}
         /\ exc = Error("TokenError", TokenAccountCall, log[Len(log)].err)
         /\ log[Len(log)].op = TokenAccountCall
         /\ outcome # "returned"

\* three attempts failed, the third with another error than the first, and createToken
\* has thrown
C14_Witness ==
  /\ rev = "p009"
  /\ outcome = "thrown"
  /\ Cardinality(FailedAttempts) = 3
  /\ \E i \in FailedAttempts : log[i].err # log[Len(log)].err

\* the cost estimate is complete and the balance guard has let the call pass
BalanceChecked ==
  /\ GuardRan
  /\ exc.at # "guard"
  /\ loc.totalRequired # Zero

\* C15: a call goes from estimating to the balance check to submitting and ends as
\* returned or thrown: nothing is signed before the estimate and the balance check
C15_EstimateAndCheckBeforeSigning ==
  rev \in {"ctA", "p007", "p012"} =>
    /\ log # << >> => BalanceChecked
    /\ ctl = "done" <=> outcome \in {"returned", "thrown"}

\* the confirmation of the transaction in hand has been awaited
Polled ==
  /\ curTx.index > 0
  /\ log[curTx.index].st \in {"confirmed", "failed", "expired"}

\* C16: every transaction the wallet signs carries a blockhash fetched for it after the
\* step before it, and its confirmation is awaited with that same blockhash
C16_BlockhashPerTransaction ==
  (rev \in {"ctB", "p009"} /\ curTx.index > 0) =>
    /\ curTx.blockhash # NoBlockhash
    /\ curTx.blockhash.tip = curTx.index - 1
    /\ Polled => curTx.polled = curTx.blockhash

\* C17: when every awaited call returns or fails, a call of createToken that is running
\* eventually ends, returned or thrown
C17_EveryCallTerminates ==
  (outcome = "running") ~> (ctl = "done" /\ outcome \in {"returned", "thrown"})

\* a call that ended after going round the retry loop
C17_Witness ==
  /\ rev = "p009"
  /\ ctl = "done"
  /\ outcome = "returned"
  /\ Cardinality(FailedAttempts) = RetryCount - 1

\* the cost estimate has been computed
Estimated ==
  loc.totalRequired # Zero

\* C18: every rent amount of the estimate is the value the rent-exemption query returned
\* in this call, never a hardcoded figure put in its place
C18_RentsAreLiveQueries ==
  (rev \in {"ctA", "ctB"} /\ Estimated) =>
    /\ loc.mintRent = rents.mint
    /\ loc.tokenAccountRent = rents.token
    /\ loc.metadataRent = rents.metadata

\* the transactions the call has submitted: the ones the wallet signed and the ones the
\* token library sent for createMint, the token account and mintTo
Submitted ==
  {i \in 1..Len(log) : log[i].st \notin {"rejected", "notSent"}}

\* C19: the network-fee component of the estimate is 5000 lamports times the number of
\* transactions a successful run submits
C19_TxFeesCoverSubmitted ==
  (rev \in {"ctA", "ctB", "p008"} /\ SuccessfulRun) =>
    EstimatedTxFees(rev) = TX_FEE * Cardinality(Submitted)

\* decimals is a number from 0 to 9
ValidDecimals(n) ==
  ~n.nan /\ n.v \in 0..DefaultDecimals

\* C20: a request whose decimals is not a number from 0 to 9 is rejected before any
\* transaction is built
C20_DecimalsRejectedBeforeBuild ==
  (rev = "ctA" /\ ~ValidDecimals(data.decimals)) =>
    /\ curTx = NoTx
    /\ log = << >>
    /\ loc.mint = NoAddress
    /\ ctl = "done" => outcome = "thrown"

\* mintTo has been called
MintToCalled ==
  loc.mintedTo # 0

\* C21: for a supply of digits and commas, the amount handed to mintTo is exactly the
\* integer the supply spells once its commas are deleted
C21_SupplyMintedExactly ==
  (rev \in {"ctA", "ctB"} /\ MintToCalled) =>
    /\ ~loc.supplyNumber.nan
    /\ loc.supplyNumber.d = DNorm(ParseDigitsExact(ReplaceCommas(data.supply), << >>), 0)

\* C22: without a configured fee collector the call fails before anything is signed or
\* sent, and never creates a token for which no service fee was charged
C22_NoCollectorNoToken ==
  (rev \in {"ctA", "p009"} /\ ~env.feeCollector) =>
    /\ log = << >>
    /\ loc.mint = NoAddress
    /\ ctl = "done" => outcome = "thrown"

\* C23: with no RPC endpoint configured, token creation goes on with the public
\* fallback endpoint instead of failing
C23_FallbackEndpoint ==
  (rev = "ctA" /\ env.endpoint = Undefined) =>
    /\ exc.at # "connect"
    /\ pc > 1 => loc.endpoint = ClusterApiUrl

\* what the confirmed transaction name took from the wallet: its transfers and its fee
WalletCost(name) ==
  SumLamports(Encoded(TxTransfers(rev, name, loc, env))) + TX_FEE * TxSignatures(name)

\* the wallet debits of the confirmed transactions among the first i steps
RECURSIVE ConfirmedDebits(_)
ConfirmedDebits(i) ==
  IF i = 0 THEN 0
  ELSE ConfirmedDebits(i - 1)
       + (IF log[i].op \in TxNames /\ log[i].st = "confirmed" THEN WalletCost(log[i].op)
          ELSE 0)

\* C24: when the wallet declines to sign a transaction, neither it nor any later step is
\* sent, the call fails with that rejection, and what the confirmed steps before it
\* took from the wallet stays taken
C24_RejectedSignatureStopsRun ==
  \A i \in 1..Len(log) :
    (rev = "ctA" /\ log[i].st = "rejected") =>
      /\ i = Len(log)
      /\ ctl # "try"
      /\ exc = Error("SigningRejected", log[i].op, "rejected")
      /\ ctl = "done" => outcome = "thrown" /\ result = NoResult
      /\ debited = ConfirmedDebits(i - 1)
      /\ chain.wallet + debited = loc.balance

\* the user declined the mint-funding transaction after two confirmed transactions
C24_Witness ==
  /\ rev = "ctA"
  /\ outcome = "thrown"
  /\ exc = Error("SigningRejected", "fundMint", "rejected")
  /\ debited > TX_FEE * 2

\* C25: the request with supply "1000", decimals 9 and nothing selected, when no step
\* fails, returns success with feeAmount 0.05, the mint address and the signature of at
\* least one transaction
C25_PlainRequestResult ==
  (rev \in {"ctA", "p009"} /\ data = BaseRequest /\ SuccessfulRun) =>
    /\ result.success
    /\ result.feeAmount = DFromRatio(5, 100)
    /\ result.tokenAddress # NoAddress
    /\ result.feeTransaction \in TxNames

\* C26: the mint keypair has been sent at least the lamports that createMint, the
\* token-account creation and mintTo take from it as their payer, in a run whose steps
\* all went through
C26_PayerFunded ==
  (rev \in {"ctA", "p009"} /\ AllConfirmed) => loc.payerSpent <= chain.mintKeypair

\* C27: once the balance check has passed, what the wallet is debited never exceeds the
\* total required, so no wallet transaction fails for lack of funds
C27_TotalCoversWalletDebits ==
  (rev \in {"ctA", "p009"} /\ BalanceChecked) =>
    /\ ~DLess(loc.totalRequired, DFromNat(debited))
    /\ \A i \in 1..Len(log) : log[i].op \in TxNames => log[i].err # "InsufficientFunds"

\* the requests that differ from d in the mintAuthority and updateAuthority flags only
Twins(d) ==
  { [d EXCEPT !.mintAuthority = m, !.updateAuthority = u] : m \in BOOLEAN, u \in BOOLEAN }

C30_ShownFeeIsFeeAmount ==
  rev \in {"ctA", "p014"} =>
    /\ FeeComputed => loc.serviceFee = CalculateFees(data)
    /\ outcome = "returned" => result.feeAmount = CalculateFees(data)

\* the requests of the wizard that have not settled
InFlight == Cardinality({i \in DOMAIN requests : requests[i].state = "pending"})

\* C29: the wizard has at most one request in flight, isCreating is true while a
\* request is in flight and false when none is
C29_OneRequestInFlight ==
  /\ InFlight <= 1
  /\ InFlight > 0 => isCreating
  /\ InFlight = 0 => ~isCreating
=============================================================================
